---- MODULE Spec2Model ----
(***************************************************************************)
(* heatlab: the two procedural image scripts, glowGen.py (a radial glow    *)
(* sprite) and iconGen.py (a stroked Bezier arc mask, cleaned and          *)
(* composited on a solid colour).  One run executes one script, statement  *)
(* by statement.                                                           *)
(*                                                                         *)
(* Numbers.  The scripts compute in floating point; the model computes the *)
(* same expressions exactly.  A distance sqrt(n) is carried as the integer *)
(* n under the root, and a real value v = a0 * (1 - sqrt(m)/r)^p is        *)
(* carried as the pair of integers floor(v), ceil(v), which decide every   *)
(* comparison with an integer and the truncation to 8 bits.                *)
(*                                                                         *)
(* Pillow.  ImageDraw's rasteriser, the Lanczos resampler and the PNG      *)
(* encoder are library code.  The supersampled canvas is carried as the    *)
(* list of drawing commands issued on it, the resampled mask is any mask   *)
(* of a family of masks of the output size, and a saved file holds the     *)
(* image saved.                                                            *)
(***************************************************************************)
EXTENDS Integers, Sequences, FiniteSets, TLC

VARIABLES
    script,      \* which script this run executes: "glow" or "icon"
    pc,          \* the statement last executed
    \* glowGen.py, make_glow_png
    center, radius, alpha0, blur, power,   \* the arguments
    dist,        \* dist[p]: n, for the distance sqrt(n) of p from center
    alpha,       \* alpha[p]: [lo, hi] = floor and ceiling of t^power * alpha0
    glow_rgba,   \* the uint8 array, <<r, g, b, a>> per pixel
    glow,        \* the blurred image
    \* iconGen.py, make_foreground_png_solid
    stroke_w,    \* the argument
    pts,         \* the sampled curve, numerators over PtsDen
    canvas,      \* the drawing commands issued on the supersampled canvas
    mask_small,  \* the argument of clean_mask: the resampled mask
    m,           \* the image clean_mask is working on
    mask,        \* the cleaned mask, as returned
    fg,          \* the foreground image
    \* the file system and the script's final expression
    written,     \* the files written, in order: [path, image]
    report       \* the value of the script's last expression

vars == <<script, pc, center, radius, alpha0, blur, power, dist, alpha,
          glow_rgba, glow, stroke_w, pts, canvas, mask_small, m, mask, fg,
          written, report>>

glowVars == <<center, radius, alpha0, blur, power, dist, alpha, glow_rgba, glow>>
iconVars == <<stroke_w, pts, canvas, mask_small, m, mask, fg>>

(***************************************************************************)
(* Bounds of the model and inputs                                          *)
(***************************************************************************)
\* OUT is 1024 in both scripts; the model's canvas is OUT x OUT for a small OUT.
OUT == 4
\* The largest glow radius tried.
MaxRadius == 3
\* The number of curve samples (2000 in the script).
NSamples == 3

Pixels == (0 .. OUT - 1) \X (0 .. OUT - 1)
Centers == Pixels
Radii == 1 .. MaxRadius
Alpha0s == {-40, 0, 185, 300}
Powers == {0, 1, 2}
Blurs == {0, 1}
StrokeWidths == {75}

\* Pixel values tried in a mask: both sides of each cut of the snap, and the ends.
LowCut == 8
HighCut == 200
MaskValues == {0, LowCut - 1, LowCut, HighCut - 1, HighCut, 255}

None == <<>>

Abs(i) == IF i < 0 THEN -i ELSE i
Min2(a, b) == IF a < b THEN a ELSE b
Max2(a, b) == IF a > b THEN a ELSE b
SetMax(S) == CHOOSE v \in S : \A w \in S : w <= v
SetMin(S) == CHOOSE v \in S : \A w \in S : v <= w

(***************************************************************************)
(* Exact arithmetic on values a * (r - sqrt(n))^p / r^p                    *)
(***************************************************************************)
RECURSIVE Pow(_, _)
Pow(b, e) == IF e = 0 THEN 1 ELSE b * Pow(b, e - 1)

IsqrtFloor(n) == CHOOSE q \in 0 .. n : q * q <= n /\ (q + 1) * (q + 1) > n
IsqrtCeil(n) == IF IsqrtFloor(n) * IsqrtFloor(n) = n THEN IsqrtFloor(n) ELSE IsqrtFloor(n) + 1

\* <<A, B>> with (r - sqrt(n))^p = A - B * sqrt(n).
RECURSIVE PowCoef(_, _, _)
PowCoef(r, n, p) ==
    IF p = 0 THEN <<1, 0>>
    ELSE LET c == PowCoef(r, n, p - 1)
         IN  <<r * c[1] + n * c[2], c[1] + r * c[2]>>

\* c * sqrt(n) <= X, for integers c and X and a natural n.  The squares are
\* compared only when X lies between c * floor(sqrt n) and c * ceil(sqrt n).
LeqRoot(c, n, X) ==
    IF c >= 0
    THEN IF X >= c * IsqrtCeil(n) THEN TRUE
         ELSE IF X < c * IsqrtFloor(n) THEN FALSE
         ELSE c * c * n <= X * X
    ELSE IF -X <= (-c) * IsqrtFloor(n) THEN TRUE
         ELSE IF -X > (-c) * IsqrtCeil(n) THEN FALSE
         ELSE X * X <= c * c * n

\* The largest k in lo .. hi - 1 with k * D <= a * (A - B * sqrt(n)), given that lo
\* is such a k and hi is not.
RECURSIVE FloorSearch(_, _, _, _, _, _, _)
FloorSearch(lo, hi, a, A, B, n, D) ==
    IF hi - lo <= 1 THEN lo
    ELSE LET mid == (lo + hi) \div 2
         IN  IF LeqRoot(a * B, n, a * A - mid * D)
             THEN FloorSearch(mid, hi, a, A, B, n, D)
             ELSE FloorSearch(lo, mid, a, A, B, n, D)

\* floor(a * (1 - sqrt(n)/r)^p).
FloorValue(a, n, r, p) ==
    LET c == PowCoef(r, n, p)
        D == Pow(r, p)
        K == (Abs(a) * Pow(r + IsqrtCeil(n), p)) \div D + 2
    IN  FloorSearch(-K, K, a, c[1], c[2], n, D)

CeilValue(a, n, r, p) == -FloorValue(-a, n, r, p)

(***************************************************************************)
(* Images                                                                  *)
(***************************************************************************)
Clamp(i) == IF i < 0 THEN 0 ELSE IF i > OUT - 1 THEN OUT - 1 ELSE i

\* Expanded with the margin filled with 0 instead of the border pixels.
ExpandedZero(img, x, y) ==
    IF x \in 0 .. OUT - 1 /\ y \in 0 .. OUT - 1 THEN img[<<x, y>>] ELSE 0

\* RankFilter.filter's image.expand(size//2, size//2): the image read at any
\* coordinate, the border pixels repeated beyond the border.
Expanded(img, x, y) == img[<<Clamp(x), Clamp(y)>>]

Window(k) == (-k .. k) \X (-k .. k)

\* The image img as the explicit table of its pixels (the same function).
Table(img) == img @@ <<>>

(***************************************************************************)
(* glowGen.py                                                              *)
(***************************************************************************)
mid_glow == "/mnt/data/heat_pulse_arc_glow_only_1024_mid_v3.png"

\* dist = np.sqrt((xx - cx) ** 2 + (yy - cy) ** 2), as the number under the root.
Dist(c) == [p \in Pixels |-> (p[1] - c[1]) * (p[1] - c[1]) + (p[2] - c[2]) * (p[2] - c[2])]

\* TOf without the clip: t = 1 - dist / float(radius), negative beyond the radius.
TOfNoClip(n, r) == n

\* t = np.clip(1 - dist / float(radius), 0, 1), as the n with t = 1 - sqrt(n)/r:
\* 1 - sqrt(n)/r < 0 exactly when n > r^2, and it never exceeds 1.
TOf(n, r) == Min2(n, r * r)

\* alpha = (t**power) * alpha0, as its floor and ceiling (0**0 is 1 in numpy, and
\* PowCoef(r, n, 0) is <<1, 0>>).
AlphaOf(n, r, a0, p) ==
    [lo |-> FloorValue(a0, TOf(n, r), r, p), hi |-> CeilValue(a0, TOf(n, r), r, p)]

\* ToUint8 without the clip: alpha.astype(np.uint8), truncated and wrapped to 8 bits.
ToUint8Wrap(v) == (IF v.hi <= 0 THEN v.hi ELSE v.lo) % 256

\* np.clip(alpha, 0, 255).astype(np.uint8): clamp, then truncate.
ToUint8(v) == IF v.hi <= 0 THEN 0 ELSE IF v.lo >= 255 THEN 255 ELSE v.lo

\* The sum of band ch over the first i + 1 pixels of the (2b+1)^2 window at (x, y).
RECURSIVE BoxSum(_, _, _, _, _, _)
BoxSum(img, ch, x, y, b, i) ==
    IF i < 0 THEN 0
    ELSE img[<<Clamp(x + (i % (2 * b + 1)) - b), Clamp(y + (i \div (2 * b + 1)) - b)>>][ch]
         + BoxSum(img, ch, x, y, b, i - 1)

\* ImageFilter.GaussianBlur(radius=b) on every band: a weighted mean of the pixels
\* around, the border repeated; carried as the box mean over the (2b+1)^2 window.
GaussianBlur(img, b) ==
    [p \in Pixels |->
        [ch \in 1 .. 4 |->
            BoxSum(img, ch, p[1], p[2], b, (2 * b + 1) * (2 * b + 1) - 1)
                \div ((2 * b + 1) * (2 * b + 1))]]

\* yy, xx = np.mgrid[...]; cx, cy = center; dist = np.sqrt(...)
GlowDist ==
    /\ script = "glow" /\ pc = "start"
    /\ dist' = Dist(center)
    /\ pc' = "dist"
    /\ UNCHANGED <<script, center, radius, alpha0, blur, power, alpha, glow_rgba, glow,
                   iconVars, written, report>>

\* t = np.clip(...); alpha = (t**power) * alpha0
GlowAlpha ==
    /\ script = "glow" /\ pc = "dist"
    /\ alpha' = [p \in Pixels |-> AlphaOf(dist[p], radius, alpha0, power)]
    /\ pc' = "alpha"
    /\ UNCHANGED <<script, center, radius, alpha0, blur, power, dist, glow_rgba, glow,
                   iconVars, written, report>>

\* glow_rgba = np.zeros(...); glow_rgba[..., :3] = 255; glow_rgba[..., 3] = ...
GlowRgba ==
    /\ script = "glow" /\ pc = "alpha"
    /\ glow_rgba' = [p \in Pixels |-> <<255, 255, 255, ToUint8(alpha[p])>>]
    /\ pc' = "rgba"
    /\ UNCHANGED <<script, center, radius, alpha0, blur, power, dist, alpha, glow,
                   iconVars, written, report>>

\* glow = Image.fromarray(glow_rgba, mode="RGBA").filter(ImageFilter.GaussianBlur(radius=blur))
GlowBlur ==
    /\ script = "glow" /\ pc = "rgba"
    /\ glow' = GaussianBlur(glow_rgba, blur)
    /\ pc' = "blur"
    /\ UNCHANGED <<script, center, radius, alpha0, blur, power, dist, alpha, glow_rgba,
                   iconVars, written, report>>

\* GlowSave placed before the blur: the array is saved as it was written.
GlowSaveEarly ==
    /\ script = "glow" /\ pc = "rgba"
    /\ written' = Append(written, [path |-> mid_glow, image |-> glow_rgba])
    /\ pc' = "saved"
    /\ UNCHANGED <<script, glowVars, iconVars, report>>

\* glow.save(path, "PNG")
GlowSave ==
    /\ script = "glow" /\ pc = "blur"
    /\ written' = Append(written, [path |-> mid_glow, image |-> glow])
    /\ pc' = "saved"
    /\ UNCHANGED <<script, glowVars, iconVars, report>>

\* (mid_glow, os.path.getsize(mid_glow)): the path, and that the file is there to size.
GlowReport ==
    /\ script = "glow" /\ pc = "saved"
    /\ report' = <<mid_glow, \E i \in 1 .. Len(written) : written[i].path = mid_glow>>
    /\ pc' = "done"
    /\ UNCHANGED <<script, glowVars, iconVars, written>>

(***************************************************************************)
(* iconGen.py                                                              *)
(***************************************************************************)
arc_v5 == "./icons/heat_pulse_arc_solid_foreground_1024_v5_highamp.png"

\* make_foreground_png_solid calls make_arc_mask(out_size=OUT, scale=10, ...).
scale == 10

\* The curve at t = tn/td, as the two numerators over td^3.
cubic(p0, p1, p2, p3, tn, td) ==
    LET u == td - tn
        B(k) == u * u * u * p0[k] + 3 * u * u * tn * p1[k]
                + 3 * u * tn * tn * p2[k] + tn * tn * tn * p3[k]
    IN  <<B(1), B(2)>>

PtsDen == (NSamples - 1) * (NSamples - 1) * (NSamples - 1)

CtrlP0 == <<160 * scale, 560 * scale>>
CtrlP1 == <<360 * scale, 560 * scale>>
CtrlP2 == <<664 * scale, 250 * scale>>
CtrlP3 == <<864 * scale, 535 * scale>>

\* pts = [cubic(p0, p1, p2, p3, i/1999) for i in range(2000)]
SamplePts == [i \in 1 .. NSamples |-> cubic(CtrlP0, CtrlP1, CtrlP2, CtrlP3, i - 1, NSamples - 1)]

\* (x - cap_r, y - cap_r, x + cap_r, y + cap_r) with cap_r = (stroke_w*scale)/2, as
\* numerators over 2 * PtsDen.
CapBox(pt, sw) ==
    LET w == sw * scale * PtsDen
    IN  <<2 * pt[1] - w, 2 * pt[2] - w, 2 * pt[1] + w, 2 * pt[2] + w>>

\* The masks the resampler may return: a background of any value, one pixel p of
\* any value, and one pixel q that is empty or solid.  p is taken in one octant of
\* the square: every other mask of this kind is a reflection of one of these.
Octant == {p \in Pixels : p[2] <= p[1] /\ 2 * p[1] <= OUT - 1}
MaskOf(bg, p, v, q, w) == [x \in Pixels |-> IF x = p THEN v ELSE IF x = q THEN w ELSE bg]
ResampledMasks ==
    {MaskOf(bg, p, v, q, w) : bg \in MaskValues, p \in Octant, v \in MaskValues,
                              q \in Pixels, w \in {0, 255}}

\* ImageFilter.MaxFilter(size) and MinFilter(size): the image is expanded by size//2
\* and each pixel becomes the largest (smallest) value of its size x size window.
MaxFilter(img, size) ==
    Table([p \in Pixels |->
        SetMax({Expanded(img, p[1] + d[1], p[2] + d[2]) : d \in Window(size \div 2)})])
\* MinFilter with a window one pixel narrower on each side than its size.
MinFilterNarrow(img, size) ==
    Table([p \in Pixels |->
        SetMin({Expanded(img, p[1] + d[1], p[2] + d[2]) : d \in Window(size \div 2 - 1)})])
MinFilter(img, size) ==
    Table([p \in Pixels |->
        SetMin({Expanded(img, p[1] + d[1], p[2] + d[2]) : d \in Window(size \div 2)})])

\* a[a < 8] = 0 and a[a >= 200] = 255
SnapLow(a) == Table([p \in Pixels |-> IF a[p] < LowCut THEN 0 ELSE a[p]])
\* SnapHigh with > for >=.
SnapHighStrict(a) == Table([p \in Pixels |-> IF a[p] > HighCut THEN 255 ELSE a[p]])
SnapHigh(a) == Table([p \in Pixels |-> IF a[p] >= HighCut THEN 255 ELSE a[p]])

\* clean_mask, whole.
clean_mask(ms) ==
    LET a == SnapHigh(SnapLow(MinFilter(MaxFilter(ms, 5), 5)))
    IN  SnapLow(SnapHigh(MinFilter(MaxFilter(a, 3), 3)))

\* Image.new("RGBA", (OUT, OUT), (255, 255, 255, 255))
NewFg == [p \in Pixels |-> <<255, 255, 255, 255>>]

\* putalpha that also scales the colour bands by the mask (premultiplied alpha).
putalphaPremultiplied(img, msk) ==
    [p \in Pixels |-> <<(img[p][1] * msk[p]) \div 255, (img[p][2] * msk[p]) \div 255,
                         (img[p][3] * msk[p]) \div 255, msk[p]>>]

\* Image.putalpha(mask): band 3 is replaced by the mask, the colour bands are kept.
putalpha(img, msk) == [p \in Pixels |-> <<img[p][1], img[p][2], img[p][3], msk[p]>>]

\* make_arc_mask: the blank canvas, the control points, the samples.
IconSample ==
    /\ script = "icon" /\ pc = "start"
    /\ canvas' = [size |-> OUT * scale, cmds |-> <<>>]
    /\ pts' = SamplePts
    /\ pc' = "sampled"
    /\ UNCHANGED <<script, glowVars, stroke_w, mask_small, m, mask, fg, written, report>>

\* d.line(pts, fill=255, width=stroke_w*scale, joint="curve")
IconLine ==
    /\ script = "icon" /\ pc = "sampled"
    /\ canvas' = [canvas EXCEPT !.cmds = Append(@,
                    [op |-> "line", at |-> pts, width |-> stroke_w * scale, fill |-> 255])]
    /\ pc' = "stroked"
    /\ UNCHANGED <<script, glowVars, stroke_w, pts, mask_small, m, mask, fg, written, report>>

\* for x, y in (pts[0], pts[-1]): d.ellipse(..., fill=255)
IconCaps ==
    /\ script = "icon" /\ pc = "stroked"
    /\ canvas' = [canvas EXCEPT !.cmds = @ \o
                    <<[op |-> "ellipse", at |-> CapBox(pts[1], stroke_w), fill |-> 255],
                      [op |-> "ellipse", at |-> CapBox(pts[Len(pts)], stroke_w), fill |-> 255]>>]
    /\ pc' = "capped"
    /\ UNCHANGED <<script, glowVars, stroke_w, pts, mask_small, m, mask, fg, written, report>>

\* return mask.resize((out_size, out_size), resample=LANCZOS); the canvas is dropped.
IconResize ==
    /\ script = "icon" /\ pc = "capped"
    /\ mask_small' \in ResampledMasks
    /\ canvas' = None
    /\ pc' = "resized"
    /\ UNCHANGED <<script, glowVars, stroke_w, pts, m, mask, fg, written, report>>

\* clean_mask, statement by statement; m is the image in hand.
\* m = mask_small.filter(ImageFilter.MaxFilter(size=5)).filter(ImageFilter.MinFilter(size=5))
CleanClose5 ==
    /\ script = "icon" /\ pc = "resized"
    /\ \E mx \in {MaxFilter(mask_small, 5)} : m' = MinFilter(mx, 5)
    /\ pc' = "closed5"
    /\ UNCHANGED <<script, glowVars, stroke_w, pts, canvas, mask_small, mask, fg, written, report>>

\* a = np.array(m, dtype=np.uint8); a[a < 8] = 0; a[a >= 200] = 255
CleanSnap1 ==
    /\ script = "icon" /\ pc = "closed5"
    /\ \E lo \in {SnapLow(m)} : m' = SnapHigh(lo)
    /\ pc' = "snap1"
    /\ UNCHANGED <<script, glowVars, stroke_w, pts, canvas, mask_small, mask, fg, written, report>>

\* m2 = Image.fromarray(a).filter(ImageFilter.MaxFilter(size=3)).filter(ImageFilter.MinFilter(size=3))
CleanClose3 ==
    /\ script = "icon" /\ pc = "snap1"
    /\ \E mx \in {MaxFilter(m, 3)} : m' = MinFilter(mx, 3)
    /\ pc' = "closed3"
    /\ UNCHANGED <<script, glowVars, stroke_w, pts, canvas, mask_small, mask, fg, written, report>>

\* a2[a2 >= 200] = 255; a2[a2 < 8] = 0; return; mask = clean_mask(mask)
CleanSnap2 ==
    /\ script = "icon" /\ pc = "closed3"
    /\ \E hi \in {SnapHigh(m)} : mask' = SnapLow(hi)
    /\ m' = None
    /\ pc' = "cleaned"
    /\ UNCHANGED <<script, glowVars, stroke_w, pts, canvas, mask_small, fg, written, report>>

IconNewFg ==
    /\ script = "icon" /\ pc = "cleaned"
    /\ fg' = NewFg
    /\ pc' = "fg"
    /\ UNCHANGED <<script, glowVars, stroke_w, pts, canvas, mask_small, m, mask, written, report>>

IconPutAlpha ==
    /\ script = "icon" /\ pc = "fg"
    /\ fg' = putalpha(fg, mask)
    /\ pc' = "composited"
    /\ UNCHANGED <<script, glowVars, stroke_w, pts, canvas, mask_small, m, mask, written, report>>

\* fg.save(path, "PNG")
IconSave ==
    /\ script = "icon" /\ pc = "composited"
    /\ written' = Append(written, [path |-> arc_v5, image |-> fg])
    /\ pc' = "saved"
    /\ UNCHANGED <<script, glowVars, iconVars, report>>

\* (arc_v5, os.path.getsize(arc_v5))
IconReport ==
    /\ script = "icon" /\ pc = "saved"
    /\ report' = <<arc_v5, \E i \in 1 .. Len(written) : written[i].path = arc_v5>>
    /\ pc' = "done"
    /\ UNCHANGED <<script, glowVars, iconVars, written>>

(***************************************************************************)
(* The runs                                                                *)
(***************************************************************************)
Init ==
    /\ pc = "start"
    /\ written = <<>>
    /\ report = None
    /\ dist = None /\ alpha = None /\ glow_rgba = None /\ glow = None
    /\ pts = None /\ canvas = None /\ mask_small = None /\ m = None /\ mask = None
    /\ fg = None
    /\ \/ /\ script = "glow"
          /\ center \in Centers
          /\ radius \in Radii
          /\ alpha0 \in Alpha0s
          /\ blur \in Blurs
          /\ power \in Powers
          /\ stroke_w = None
       \/ /\ script = "icon"
          /\ stroke_w \in StrokeWidths
          /\ center = None /\ radius = None /\ alpha0 = None /\ blur = None
          /\ power = None

Next ==
    \/ GlowDist \/ GlowAlpha \/ GlowRgba \/ GlowBlur \/ GlowSave \/ GlowReport
    \/ IconSample \/ IconLine \/ IconCaps \/ IconResize
    \/ CleanClose5 \/ CleanSnap1 \/ CleanClose3 \/ CleanSnap2
    \/ IconNewFg \/ IconPutAlpha \/ IconSave \/ IconReport

Spec == Init /\ [][Next]_vars

\* A script runs to its end: no statement waits on anything.
FairSpec == Spec /\ WF_vars(Next)

(***************************************************************************)
(* Properties                                                              *)
(***************************************************************************)
AfterAlpha == {"alpha", "rgba", "blur", "saved", "done"}
AfterRgba == {"rgba", "blur", "saved", "done"}
AfterBlur == {"blur", "saved", "done"}
InClean == {"closed5", "snap1", "closed3"}
AfterClean == {"cleaned", "fg", "composited", "saved", "done"}
AfterComposite == {"composited", "saved", "done"}
Border == {p \in Pixels : p[1] \in {0, OUT - 1} \/ p[2] \in {0, OUT - 1}}
Snapped(v) == v = 0 \/ v = 255 \/ (LowCut <= v /\ v < HighCut)
IsByte(v) == 0 <= v /\ v <= 255

\* C1. Cleanup idempotence: the mask clean_mask returns is a fixed point of
\* clean_mask: cleaning the cleaned mask again changes no pixel.
CleanupIdempotent ==
    (script = "icon" /\ pc = "cleaned") =>
        /\ mask = clean_mask(mask_small)
        /\ clean_mask(mask) = mask

\* A cleaned mask that differs from the mask given, with pixels left in the band.
CleanupIdempotentWitness ==
    /\ script = "icon" /\ pc = "cleaned"
    /\ mask # mask_small
    /\ \E p \in Pixels : LowCut <= mask[p] /\ mask[p] < HighCut
    /\ \E p \in Pixels : mask[p] = 255
    /\ \E p \in Pixels : mask[p] = 0

\* C2. Glow zero outside the radius: once the alpha channel is written, every pixel
\* at distance >= radius from the center has alpha 0, whatever the arguments.
ZeroOutsideRadius ==
    (script = "glow" /\ pc \in AfterRgba) =>
        \A p \in Pixels : dist[p] >= radius * radius => glow_rgba[p][4] = 0

\* C3. Glow alpha monotonicity: for alpha0 >= 0, of two pixels at distances
\* d1 < d2 <= radius the nearer has the larger or equal 8-bit alpha before the blur.
AlphaMonotone ==
    (script = "glow" /\ pc \in AfterRgba /\ alpha0 >= 0) =>
        \A p, q \in Pixels :
            (dist[p] < dist[q] /\ dist[q] <= radius * radius)
                => glow_rgba[p][4] >= glow_rgba[q][4]

\* A glow with a clamped peak, a strictly smaller alpha farther out, and a pixel on
\* the radius.
AlphaMonotoneWitness ==
    /\ script = "glow" /\ pc = "rgba" /\ alpha0 > 255 /\ power > 0
    /\ \E p, q, z \in Pixels :
        /\ dist[p] < dist[q] /\ dist[q] < dist[z] /\ dist[z] = radius * radius
        /\ glow_rgba[p][4] = 255
        /\ glow_rgba[q][4] < 255 /\ glow_rgba[q][4] > 0
        /\ glow_rgba[z][4] = 0

CompositeCorrect ==
    (script = "icon" /\ pc \in AfterComposite) =>
        \A p \in Pixels : fg[p] = <<255, 255, 255, mask[p]>>

\* A composite with a transparent, an opaque and a translucent pixel.
CompositeCorrectWitness ==
    /\ script = "icon" /\ pc = "composited"
    /\ \E p \in Pixels : mask[p] = 0 /\ fg[p][4] = 0
    /\ \E p \in Pixels : mask[p] = 255 /\ fg[p][4] = 255
    /\ \E p \in Pixels : Snapped(mask[p]) /\ mask[p] \notin {0, 255}

GlowOrder == <<"start", "dist", "alpha", "rgba", "blur", "saved", "done">>
IconOrder == <<"start", "sampled", "stroked", "capped", "resized", "closed5", "snap1",
               "closed3", "cleaned", "fg", "composited", "saved", "done">>
Order == IF script = "glow" THEN GlowOrder ELSE IconOrder
Image == IF script = "glow" THEN glow ELSE fg
StepInOrder == \E i \in 1 .. Len(Order) - 1 : pc = Order[i] /\ pc' = Order[i + 1]
FrozenAfterSave == pc \in {"saved", "done"} => (Image' = Image /\ written' = written)
OneFile ==
    IF pc \in {"saved", "done"}
    THEN Len(written) = 1 /\ written[1].image = Image
    ELSE written = <<>>

SnapBand ==
    /\ (script = "icon" /\ pc \in AfterClean) => \A p \in Pixels : Snapped(mask[p])
    /\ (script = "icon" /\ pc \in {"snap1", "closed3"}) =>
            \A p \in Pixels : Snapped(m[p])
    /\ (script = "icon" /\ pc = "snap1") =>
            LET mx == MaxFilter(m, 3) IN \A p \in Pixels : Snapped(mx[p])

\* A mask with a value under the low cut and a value over the high cut, cleaned.
SnapBandWitness ==
    /\ script = "icon" /\ pc = "cleaned"
    /\ \E p \in Pixels : 0 < mask_small[p] /\ mask_small[p] < LowCut /\ mask[p] = 0
    /\ \E p \in Pixels : HighCut <= mask_small[p] /\ mask_small[p] < 255 /\ mask[p] = 255

\* C10. Cleanup never erodes: a pixel of value >= 8 in the mask given has at least
\* that value in the mask returned, at the border too.
NeverErodes ==
    (script = "icon" /\ pc \in AfterClean) =>
        \A p \in Pixels : mask_small[p] >= LowCut => mask[p] >= mask_small[p]

\* A solid pixel on the border of an otherwise empty mask, kept solid.
NeverErodesWitness ==
    /\ script = "icon" /\ pc = "cleaned"
    /\ \E p \in Border :
        /\ mask_small[p] = 255 /\ mask[p] = 255
        /\ \A q \in Pixels \ {p} : mask_small[q] = 0
    /\ \E q \in Pixels : mask[q] = 0

====
